---- MODULE Spec2Model ----
(***************************************************************************)
(* Waver: Wave (src/src/wave.rs) and Waveform (src/src/waveform.rs).       *)
(*                                                                         *)
(* Numbers.  The code computes in f32.  The model writes an f32 value as a  *)
(* grid value plus an error:                                               *)
(*   sample_rate  a whole number of samples per second, dividing 4;        *)
(*   frequency    a whole number of Hz;                                    *)
(*   phase        a whole number of quarter turns (phase = k * PI / 2.0);  *)
(*   an angle     a whole number of quarter turns;                         *)
(*   amplitude    a whole number of twelfths (AmpDen);                     *)
(*   a shape      a whole number of halves;                                *)
(*   a sample     a whole number of twenty-fourths (SampleDen);            *)
(*   an error     a whole number of Tau = 2^-34 / 3.                       *)
(* With sample_rate dividing 4 the angle 2*PI*(idx/sample_rate)*frequency  *)
(* + phase is a whole number q of quarter turns plus AngleErr(q), what the *)
(* f32 roundings of PI and of the products leave.  f32 PI lies above pi,   *)
(* so the f32 angle for a nonzero multiple k*pi lies beyond it, which      *)
(* decides the sign bit copysignf reads (SinfSignBit), and sinf, cosf and  *)
(* asinf return at their zeros not 0 but that error.  Every f32 operation  *)
(* on a sample rounds the exact result to the nearest f32, ties to even    *)
(* (F32Round); the error of a sample, of the superposition and of its      *)
(* product with max_value decides the integer part NumCast takes when the  *)
(* grid value of the product is a whole number.                            *)
(***************************************************************************)
EXTENDS Integers, Sequences, FiniteSets

VARIABLES
    \* Waveform<BitDepth>
    bits,          \* the BitDepth type parameter
    sample_rate,   \* Waveform::sample_rate
    components,    \* Waveform::components, a sequence of Wave
    \* WaveformIterator
    live,          \* whether Waveform::iter has built the iterator
    iters,         \* WaveformIterator::iters: the index of each WaveIterator
    superposition, \* the local `superposition` of the last next()
    sum_err,       \* what that f32 holds beyond superposition, in Tau
    out,           \* what the last next() returned
    steps,         \* the number of next() calls made
    \* history of the calls made on the Waveform
    built,         \* "new": empty as constructed; "single": one Wave appended
                   \* to it (with_wave, or new then superpose); else "mutated"
    arg,           \* while built = "single": that Wave as the caller wrote it
    normalized,    \* normalize_amplitudes ran and nothing was appended since
    \* a WaveIterator traversed on its own
    inner,         \* WaveIterator::inner
    index,         \* WaveIterator::index
    emitted        \* what each next() used and returned, in order

wfvars == <<bits, sample_rate, components, live, iters, superposition, sum_err,
            out, steps, built, arg, normalized>>
wavevars == <<inner, index, emitted>>
vars == <<bits, sample_rate, components, live, iters, superposition, sum_err,
          out, steps, built, arg, normalized, inner, index, emitted>>

----------------------------------------------------------------------------
\* Bounds of the model.

MaxComponents == 2
MaxSteps == 5
MaxWaveSteps == 9

\* Units of the grid.
AmpDen == 3 * 4
SampleDen == 2 * AmpDen

WaveFunc == {"Sine", "Cosine", "Square", "Sawtooth", "Triangle"}

BitDepths == {"i8", "u8", "i16"}

\* The Wave values a traversal is started on: sample_rate positive and
\* dividing 4, and a phase that does not oppose the frequency term (the f32
\* angle of such a wave rounds short of the multiple of pi it stands for).
Rates == {1, 2, 4}
Frequencies == -2 .. 2
Phases == -1 .. 1
Amplitudes == {AmpDen \div 2, AmpDen, AmpDen + AmpDen \div 2}

Wave(r, f, p, a, fn) ==
    [sample_rate |-> r, frequency |-> f, phase |-> p, amplitude |-> a, func |-> fn]

Waves ==
    {w \in [sample_rate : Rates, frequency : Frequencies, phase : Phases,
            amplitude : Amplitudes, func : WaveFunc] :
        w.frequency * w.phase >= 0}

\* Wave::default(): sample rate 0, amplitude 1.0.
DefaultWave == Wave(0, 0, 0, AmpDen, "Sine")

----------------------------------------------------------------------------
\* f32 arithmetic on the grid.

\* The f32 `%`: the remainder of the truncated division, signed as x.
Fmod(x, y) == IF x >= 0 THEN x % y ELSE -((-x) % y)

\* sinf of q quarter turns, in halves.
sinf(q) == CASE q % 4 = 1 -> 2
             [] q % 4 = 3 -> -2
             [] OTHER -> 0

\* cosf of q quarter turns, in halves.
cosf(q) == CASE q % 4 = 0 -> 2
             [] q % 4 = 2 -> -2
             [] OTHER -> 0

\* The sign bit of sinf at the f32 angle of q quarter turns.  At q = 2k the
\* f32 angle lies beyond k*pi (away from 0), where sin has the sign it takes
\* just after k*pi for k > 0 and just before it for k < 0; sinf(0.0) is 0.0.
SinfSignBit(q) ==
    CASE q % 4 = 1 -> FALSE
      [] q % 4 = 3 -> TRUE
      [] q = 0 -> FALSE
      [] q > 0 -> (q \div 2) % 2 = 1
      [] OTHER -> (q \div 2) % 2 = 0

\* copysignf(1.0, y), in halves, from the sign bit of y.
copysignf(signbit) == IF signbit THEN -2 ELSE 2

\* asinf of a value in halves, in quarter turns.
asinf(v) == v \div 2

----------------------------------------------------------------------------
\* f32 rounding.  An f32 is written g / SampleDen + d * Tau, g its grid value
\* in twenty-fourths and d its error in Tau = 2^-34 / 3.

Pow2(n) == 2 ^ n

\* a / b rounded to the nearest whole number, b > 0.
RDiv(a, b) == (2 * a + b) \div (2 * b)

\* The binary exponent of a / SampleDen, a > 0: 2^E <= a / SampleDen < 2^(E+1).
RECURSIVE F32Exp(_)
F32Exp(a) ==
    IF a >= 2 * SampleDen THEN F32Exp(a \div 2) + 1
    ELSE IF a < SampleDen THEN F32Exp(2 * a) - 1
    ELSE 0

\* The error of the f32 nearest to g / SampleDen + x * Tau, ties to the even
\* significand.  The f32 of exponent E are 2^(E-23) = 3 * 2^(E+11) Tau apart
\* (half that below 2^E); the grid value lies rr * 2^(E+11) Tau above the f32
\* at or below it, whose significand has the parity of rr.  A value with
\* grid value 0 is an error alone, far finer than Tau, and is kept; a grid
\* value of whole eighths is itself an f32.
F32Round(g, x) ==
    IF g = 0 THEN x
    ELSE IF x = 0 /\ g % 3 = 0 THEN 0
    ELSE LET s == IF g > 0 THEN 1 ELSE -1
             a == s * g
             E == F32Exp(a)
             w == Pow2(E + 11)
             rr == ((a % 3) * (IF (20 - E) % 2 = 0 THEN 1 ELSE 2)) % 3
             p == rr * w + s * x
             u == IF a * Pow2(11) = SampleDen * w /\ p < 0
                  THEN (3 * w) \div 2
                  ELSE 3 * w
             m == p \div u
             rem == p - m * u
             mm == IF 2 * rem < u THEN m
                   ELSE IF 2 * rem > u THEN m + 1
                   ELSE IF (rr + m) % 2 = 0 THEN m
                   ELSE m + 1
         IN  s * (mm * u - rr * w)

\* What the f32 angle of q quarter turns holds beyond q * pi / 2, in Tau: the
\* f32 nearest to q * (f32 PI) / 2, f32 PI being pi + 8.742278e-8.
AngleErr(q) ==
    LET n == IF q < 0 THEN -q ELSE q
        e == CASE n = 0 -> 0
               [] n = 1 -> 2253
               [] n = 2 -> 4506
               [] n = 3 -> 615
               [] n = 4 -> 9011
               [] n = 5 -> 17408
               [] n = 6 -> 1229
               [] n = 7 -> -14950
               [] n = 8 -> 18023
               [] n = 9 -> 1844
    IN  IF q < 0 THEN -e ELSE e

\* x / pi to the nearest whole number.
OverPi(x) == RDiv(x * 113, 355)

\* The error of sinf at the f32 angle of q quarter turns: at q = 2k, where
\* sin is 0, sinf returns (-1)^k times the angle's error; at odd q it
\* returns 1.0 or -1.0.
sinf_err(q) ==
    IF q % 2 # 0 THEN 0
    ELSE IF (q \div 2) % 2 = 0 THEN AngleErr(q)
    ELSE -AngleErr(q)

\* The error of cosf: at q = 2k + 1, where cos is 0, cosf returns (-1)^(k+1)
\* times the angle's error.
cosf_err(q) ==
    IF q % 2 = 0 THEN 0
    ELSE IF ((q - 1) \div 2) % 2 = 0 THEN -AngleErr(q)
    ELSE AngleErr(q)

\* The error of 2.0 * asinf(sinf(x)) / PI: asinf(y) is y at a y near 0, and
\* 2.0 * asinf(1.0) is the f32 PI.
triangle_err(q) == OverPi(2 * sinf_err(q))

\* The error of (x % (2.0 * PI)) / PI - 1.0.  The remainder is exact: rq
\* quarter turns and what the angle's error leaves of the k periods taken off,
\* each the f32 2.0 * PI; the quotient by the f32 PI and the difference
\* each round.
sawtooth_err(q) ==
    LET rq == IF q >= 0 THEN q % 4 ELSE -((-q) % 4)
        k == (q - rq) \div 4
        eps == AngleErr(q) - k * AngleErr(4)
        quo == IF rq = 0 THEN OverPi(eps)
               ELSE F32Round(AmpDen * rq, OverPi(eps - rq * AngleErr(1)))
    IN  F32Round(AmpDen * rq - SampleDen, quo)

----------------------------------------------------------------------------
\* WaveIterator (src/src/wave.rs).

\* The angle 2.0 * PI * t * frequency + phase with t = idx / sample_rate, in
\* quarter turns.
Angle(w, idx) == (4 * idx * w.frequency) \div w.sample_rate + w.phase

\* index_inc without the wrap: the index only grows.
index_inc_nowrap(w, i) == [idx |-> i, index |-> i + 1]

\* WaveIterator::index_inc: the index it returns and the index it leaves.
index_inc(w, i) == [idx |-> i, index |-> Fmod(i, w.sample_rate) + 1]

\* WaveIterator::func at x quarter turns, in halves.
func(w, x) ==
    CASE w.func = "Sine" -> sinf(x)
      [] w.func = "Cosine" -> cosf(x)
      [] w.func = "Square" -> copysignf(SinfSignBit(x))
      [] w.func = "Sawtooth" -> Fmod(x, 4) - 2
      [] w.func = "Triangle" -> 2 * asinf(sinf(x))

\* The error of WaveIterator::func at x quarter turns.
func_err(w, x) ==
    CASE w.func = "Sine" -> sinf_err(x)
      [] w.func = "Cosine" -> cosf_err(x)
      [] w.func = "Square" -> 0
      [] w.func = "Sawtooth" -> sawtooth_err(x)
      [] w.func = "Triangle" -> triangle_err(x)

\* The error of the f32 amplitude of a twelfths: 1.0, 1.5 and 0.5 are f32,
\* 1.0 / 3.0 rounds.
amplitude_err(a) == F32Round(2 * a, 0)

\* WaveIterator::next: the sample (in twenty-fourths) and the index left.
next(w, i) ==
    LET inc == index_inc(w, i)
    IN  [idx |-> inc.idx,
         sample |-> w.amplitude * func(w, Angle(w, inc.idx)),
         index |-> inc.index]

\* The error of the sample amplitude * func(x) that next returns at idx: the
\* product of the two f32, rounded.
next_err(w, idx) ==
    LET x == Angle(w, idx)
        h == func(w, x)
    IN  F32Round(w.amplitude * h,
                 RDiv(w.amplitude * func_err(w, x), AmpDen)
                 + (h * amplitude_err(w.amplitude)) \div 2)

\* The f32 that next returns: its grid value and its error.
Sample(w, r) == [sample |-> r.sample, err |-> next_err(w, r.idx)]

\* Wave::iter / into_iter: a fresh traversal.
WaveIter ==
    /\ index' = 0
    /\ emitted' = <<>>
    /\ UNCHANGED inner
    /\ UNCHANGED wfvars

\* One call of WaveIterator::next.
WaveIteratorNext ==
    /\ Len(emitted) < MaxWaveSteps
    /\ LET r == next(inner, index)
       IN  /\ index' = r.index
           /\ emitted' = Append(emitted, [idx |-> r.idx, sample |-> r.sample])
    /\ UNCHANGED inner
    /\ UNCHANGED wfvars

WaveformIdle ==
    /\ bits = "i8"
    /\ sample_rate = 4
    /\ components = <<>>
    /\ live = FALSE
    /\ iters = <<>>
    /\ superposition = 0
    /\ sum_err = 0
    /\ out = [some |-> FALSE, val |-> 0]
    /\ steps = 0
    /\ built = "new"
    /\ arg = DefaultWave
    /\ normalized = FALSE

WaveInit ==
    /\ inner \in Waves
    /\ index = 0
    /\ emitted = <<>>
    /\ WaveformIdle

WaveNext == WaveIteratorNext \/ WaveIter

WaveSpec == WaveInit /\ [][WaveNext]_vars

----------------------------------------------------------------------------
\* Waveform<BitDepth> (src/src/waveform.rs).

\* The Wave values handed to with_wave and superpose.  The caller's
\* sample_rate is any of CallerRates, 0 being Wave::default()'s.
CallerRates == {0, 2, 4}
Superposable ==
    [sample_rate : CallerRates, frequency : {-1, 1}, phase : {0},
     amplitude : {AmpDen, AmpDen + AmpDen \div 2}, func : WaveFunc]

\* Bounded::max_value() and min_value() of BitDepth.
max_value(b) == CASE b = "i8" -> 127 [] b = "u8" -> 255 [] b = "i16" -> 32767
min_value(b) == CASE b = "i8" -> -128 [] b = "u8" -> 0 [] b = "i16" -> -32768

\* The f32 to integer cast `as`: truncation toward zero of v twenty-fourths.
Trunc(v) == IF v >= 0 THEN v \div SampleDen ELSE -((-v) \div SampleDen)

None == [some |-> FALSE, val |-> 0]
Some(x) == [some |-> TRUE, val |-> x]

\* NumCast as the saturating `as` cast: out of range clamps to the nearest end.
NumCastSaturating(v, b) ==
    IF v <= (min_value(b) - 1) * SampleDen THEN Some(min_value(b))
    ELSE IF v >= (max_value(b) + 1) * SampleDen THEN Some(max_value(b))
    ELSE Some(Trunc(v))

\* NumCast with the ends of the range left out: MIN < v < MAX.
NumCastStrict(v, b) ==
    IF /\ v > min_value(b) * SampleDen
       /\ v < max_value(b) * SampleDen
    THEN Some(Trunc(v))
    ELSE None

\* NumCast::from(v) for an f32 v (in twenty-fourths) and an integer type
\* narrower than f32: Some(v as BitDepth) when MIN - 1 < v < MAX + 1, else None.
NumCast(v, b) ==
    IF /\ v > (min_value(b) - 1) * SampleDen
       /\ v < (max_value(b) + 1) * SampleDen
    THEN Some(Trunc(v))
    ELSE None

\* Iterator::sum over f32: from 0.0, each term added in turn and the result
\* rounded.
RECURSIVE Sum(_)
Sum(s) ==
    IF s = <<>> THEN [sample |-> 0, err |-> 0]
    ELSE LET acc == Sum(SubSeq(s, 1, Len(s) - 1))
             g == acc.sample + s[Len(s)].sample
         IN  [sample |-> g, err |-> F32Round(g, acc.err + s[Len(s)].err)]

\* superposition * max_value, in twenty-fourths.  The product rounds to the
\* nearest f32: where its grid value is a whole number N, not 0, and the
\* error of the sum points toward 0 by more than half the distance of the f32
\* below |N|, the product lies below |N|, and one twenty-fourth short of N
\* stands for it; else the error leaves the integer part alone.
Scaled(sum, b) ==
    LET p == sum.sample * max_value(b)
        y == IF p > 0 THEN sum.err ELSE -sum.err
    IN  IF /\ p # 0
           /\ p % SampleDen = 0
           /\ y < 0
           /\ (-y) * max_value(b) >
                  3 * Pow2(F32Exp((IF p > 0 THEN p ELSE -p) - 1) + 10)
        THEN IF p > 0 THEN p - 1 ELSE p + 1
        ELSE p

\* superpose pushing the wave as the caller wrote it.
superpose_keep_rate(rate, list, wave) == Append(list, wave)

\* superpose filling the pushed Wave from Default::default(), not from wave.
superpose_default(rate, list, wave) ==
    Append(list, [DefaultWave EXCEPT !.sample_rate = rate])

\* Waveform::superpose: the list with the wave pushed, its sample_rate
\* replaced by the waveform's.
superpose(rate, list, wave) ==
    Append(list, [wave EXCEPT !.sample_rate = rate])

\* normalize_amplitudes scaling each amplitude by 1.0 / len (`*=` for `=`).
normalize_scaling(list) ==
    IF list = <<>>
    THEN list
    ELSE LET amp_ratio == AmpDen \div Len(list)
         IN  [i \in 1 .. Len(list) |->
                 [list[i] EXCEPT !.amplitude = (@ * amp_ratio) \div AmpDen]]

\* Waveform::normalize_amplitudes: every amplitude set to 1.0 / len.
normalize_amplitudes(list) ==
    IF list = <<>>
    THEN list
    ELSE LET amp_ratio == AmpDen \div Len(list)
         IN  [i \in 1 .. Len(list) |-> [list[i] EXCEPT !.amplitude = amp_ratio]]

\* Waveform::with_wave(sample_rate, wave) = new(sample_rate).superpose(wave).
WithWave(wave) ==
    /\ ~live
    /\ built = "new"
    /\ components' = superpose(sample_rate, <<>>, wave)
    /\ built' = "single"
    /\ arg' = wave
    /\ normalized' = FALSE
    /\ UNCHANGED <<bits, sample_rate, live, iters, superposition, sum_err, out,
                   steps>>
    /\ UNCHANGED wavevars

Superpose(wave) ==
    /\ ~live
    /\ Len(components) < MaxComponents
    /\ components' = superpose(sample_rate, components, wave)
    /\ built' = IF built = "new" THEN "single" ELSE "mutated"
    /\ arg' = IF built = "new" THEN wave ELSE DefaultWave
    /\ normalized' = FALSE
    /\ UNCHANGED <<bits, sample_rate, live, iters, superposition, sum_err, out,
                   steps>>
    /\ UNCHANGED wavevars

NormalizeAmplitudes ==
    /\ ~live
    /\ components' = normalize_amplitudes(components)
    /\ built' = IF components = <<>> THEN built ELSE "mutated"
    /\ arg' = DefaultWave
    /\ normalized' = (components # <<>>)
    /\ UNCHANGED <<bits, sample_rate, live, iters, superposition, sum_err, out,
                   steps>>
    /\ UNCHANGED wavevars

\* Waveform::iter / into_iter: one fresh WaveIterator per component.
WaveformIter ==
    /\ ~live
    /\ live' = TRUE
    /\ iters' = [i \in 1 .. Len(components) |-> 0]
    /\ UNCHANGED <<bits, sample_rate, components, superposition, sum_err, out,
                   steps, built, arg, normalized>>
    /\ UNCHANGED wavevars

\* next returning None as soon as the running sum overflows: the cursors
\* after the component that overflowed it are left where they were.
WaveformIteratorNextEarlyExit ==
    /\ live
    /\ steps < MaxSteps
    /\ LET rs == [i \in 1 .. Len(iters) |-> next(components[i], iters[i])]
           running(i) ==
               Sum([j \in 1 .. i |-> Sample(components[j], rs[j])])
           over == {i \in 1 .. Len(iters) :
                       ~NumCast(Scaled(running(i), bits), bits).some}
           stop == IF over = {} THEN Len(iters)
                   ELSE CHOOSE i \in over : \A j \in over : i <= j
       IN  /\ iters' = [i \in 1 .. Len(iters) |->
                           IF i <= stop THEN rs[i].index ELSE iters[i]]
           /\ superposition' = running(stop).sample
           /\ sum_err' = running(stop).err
           /\ out' = NumCast(Scaled(running(stop), bits), bits)
    /\ steps' = steps + 1
    /\ UNCHANGED <<bits, sample_rate, components, live, built, arg, normalized>>
    /\ UNCHANGED wavevars

\* WaveformIterator::next.
WaveformIteratorNext ==
    /\ live
    /\ steps < MaxSteps
    /\ LET rs == [i \in 1 .. Len(iters) |-> next(components[i], iters[i])]
           sum == Sum([i \in 1 .. Len(iters) |-> Sample(components[i], rs[i])])
       IN  /\ iters' = [i \in 1 .. Len(iters) |-> rs[i].index]
           /\ superposition' = sum.sample
           /\ sum_err' = sum.err
           /\ out' = NumCast(Scaled(sum, bits), bits)
    /\ steps' = steps + 1
    /\ UNCHANGED <<bits, sample_rate, components, live, built, arg, normalized>>
    /\ UNCHANGED wavevars

WaveIdle ==
    /\ inner = DefaultWave
    /\ index = 0
    /\ emitted = <<>>

\* Waveform::<BitDepth>::new(sample_rate).
Init ==
    /\ bits \in BitDepths
    /\ sample_rate \in Rates
    /\ components = <<>>
    /\ live = FALSE
    /\ iters = <<>>
    /\ superposition = 0
    /\ sum_err = 0
    /\ out = None
    /\ steps = 0
    /\ built = "new"
    /\ arg = DefaultWave
    /\ normalized = FALSE
    /\ WaveIdle

Next ==
    \/ \E wave \in Superposable : WithWave(wave)
    \/ \E wave \in Superposable : Superpose(wave)
    \/ NormalizeAmplitudes
    \/ WaveformIter
    \/ WaveformIteratorNext

Spec == Init /\ [][Next]_vars

----------------------------------------------------------------------------
\* What the claims speak of.

Abs(x) == IF x >= 0 THEN x ELSE -x

\* The sum the next call of WaveformIterator::next forms from the iterators
\* as they stand.
NextSum ==
    Sum([i \in 1 .. Len(iters) |->
            Sample(components[i], next(components[i], iters[i]))])

\* The index a fresh traversal of w holds after n calls of next, and the
\* sample its call number n (from 0) returns: w.iter().nth(n).
RECURSIVE IndexAfter(_, _)
IndexAfter(w, n) ==
    IF n = 0 THEN 0 ELSE index_inc(w, IndexAfter(w, n - 1)).index
Nth(w, n) == Sample(w, next(w, IndexAfter(w, n)))

\* The item of the last call came from a Waveform holding the one Wave arg.
SingleStepped == live /\ steps >= 1 /\ built = "single"

----------------------------------------------------------------------------
\* C1: a step of the Waveform generator yields none when the sum of the
\* component samples times the type's maximum has its integer part outside
\* the type's range, and otherwise yields exactly that integer part: an item
\* is never a wrapped or saturated value.
C1_OverflowYieldsNone ==
    [][(live /\ steps' = steps + 1) =>
        LET p == Scaled(NextSum, bits)
            lo == min_value(bits)
            hi == max_value(bits)
        IN  IF p <= (lo - 1) * SampleDen \/ p >= (hi + 1) * SampleDen
            THEN ~out'.some
            ELSE /\ out'.some
                 /\ lo <= out'.val /\ out'.val <= hi
                 /\ Abs(out'.val) * SampleDen <= Abs(p)
                 /\ Abs(p) < (Abs(out'.val) + 1) * SampleDen
                 /\ (p >= 0 => out'.val >= 0) /\ (p <= 0 => out'.val <= 0)]_vars

\* A step whose product lay above the range yielded none.
C1_Witness ==
    /\ live /\ steps >= 1
    /\ superposition * max_value(bits) >= (max_value(bits) + 1) * SampleDen
    /\ ~out.some

\* C2 (as claimed): once next has yielded none, every later next yields none.
C2_NoneIsFinal ==
    [][(live /\ steps >= 1 /\ ~out.some /\ steps' = steps + 1) => ~out'.some]_vars

\* C3: in a fresh traversal of a Wave of sample rate R, step i and step i + R
\* use the same index and return the same sample, for every i >= 1.
C3_PeriodFromStepOne ==
    \A i \in 1 .. Len(emitted) :
        (i + inner.sample_rate + 1 <= Len(emitted)) =>
            emitted[i + 1] = emitted[i + inner.sample_rate + 1]

\* Two full seconds of a 4 Hz-sampled wave were emitted, the samples not all 0.
C3_Witness ==
    /\ inner.sample_rate = 4
    /\ Len(emitted) = 2 * inner.sample_rate + 1
    /\ emitted[2].sample # 0
    /\ emitted[2] = emitted[6]

\* C4: every component's sample_rate is the Waveform's own, whatever rate the
\* appended Wave carried.
C4_ComponentsShareRate ==
    \A i \in 1 .. Len(components) : components[i].sample_rate = sample_rate

\* A Wave carrying another rate was appended and holds the Waveform's rate.
C4_Witness ==
    /\ built = "single"
    /\ arg.sample_rate # sample_rate
    /\ Len(components) = 1
    /\ components[1].sample_rate = sample_rate

\* C5: every next call on the generator of a Waveform with no components
\* returns the item 0.
C5_EmptyYieldsZero ==
    (live /\ steps >= 1 /\ components = <<>>) => out = Some(0)

\* The generator of an empty Waveform was called several times.
C5_Witness ==
    /\ live /\ steps >= 3 /\ components = <<>>
    /\ out = Some(0)

\* C6 (as claimed): after normalize_amplitudes on N >= 1 components, and no
\* append since, every step of the generator yields an item.
C6_NormalizedNeverTerminates ==
    (live /\ steps >= 1 /\ normalized) => out.some

\* C7 (as claimed): a Waveform built from a single Wave yields at every step
\* that Wave's own sample of the same step, times the type's maximum,
\* converted to the type; for every Wave passed in (here: every one whose own
\* traversal is defined, its sample_rate not 0).
C7_SingleWaveMatch ==
    (SingleStepped /\ arg.sample_rate # 0) =>
        out = NumCast(Scaled(Nth(arg, steps - 1), bits), bits)

\* C7 (amended): the same, for every Wave passed in whose sample_rate is the
\* Waveform's; the conversion is the checked one, none when out of range.
C7_SingleWaveMatchSameRate ==
    (SingleStepped /\ arg.sample_rate = sample_rate) =>
        out = NumCast(Scaled(Nth(arg, steps - 1), bits), bits)

\* A Waveform built from one Wave of its own rate yielded a nonzero item.
C7_Witness ==
    /\ SingleStepped
    /\ arg.sample_rate = sample_rate
    /\ out.some /\ out.val # 0
    /\ steps >= 2

\* C8 (as claimed): the shape function's value lies in [-1, 1] at every angle
\* a traversal reaches, so a Wave of amplitude at most 1 emits only samples
\* in [-1, 1].
C8_ShapeWithinUnit ==
    \A n \in 1 .. Len(emitted) :
        /\ Abs(func(inner, Angle(inner, emitted[n].idx))) <= 2
        /\ (inner.amplitude <= AmpDen) => Abs(emitted[n].sample) <= SampleDen

\* C9: after normalize_amplitudes on N >= 1 components every amplitude is 1/N.
C9_NormalizedAmplitudes ==
    normalized =>
        \A i \in 1 .. Len(components) :
            components[i].amplitude * Len(components) = AmpDen

\* Two components were normalized to a half each.
C9_Witness ==
    /\ normalized
    /\ Len(components) = 2
    /\ \A i \in 1 .. 2 : components[i].amplitude * 2 = AmpDen

\* C10 (as claimed): step n of a traversal uses the index n mod R, so that
\* t = idx / R lies in [0, 1).
C10_IndexIsStepModRate ==
    \A n \in 1 .. Len(emitted) :
        /\ emitted[n].idx = (n - 1) % inner.sample_rate
        /\ emitted[n].idx < inner.sample_rate

\* C11: the generator holds one cursor per component; every next call, one
\* that yields none included, advances each cursor exactly once, so after k
\* calls every cursor holds the index a fresh cursor holds after k advances
\* and all cursors hold the same index.
C11_LockStep ==
    [][live' =>
        /\ Len(iters') = Len(components')
        /\ \A i \in 1 .. Len(iters') :
            /\ iters'[i] = IndexAfter(components'[i], steps')
            /\ \A j \in 1 .. Len(iters') : iters'[i] = iters'[j]
        /\ (steps' = steps + 1) =>
            \A i \in 1 .. Len(iters') :
                iters'[i] = next(components[i], iters[i]).index]_vars

\* Two cursors stand at the same index after several calls, the last of which
\* overflowed and yielded none.
C11_Witness ==
    /\ live /\ steps >= 2
    /\ Len(components) = 2 /\ Len(iters) = 2
    /\ ~out.some
    /\ iters[1] = iters[2] /\ iters[1] = IndexAfter(components[1], steps)

====
